---- MODULE Spec2Model ----
(***************************************************************************)
(* Earnings-call RAG application: the job scheduler (src/src/scheduler.py) *)
(* and the retrieval / answer pipeline (src/src/rag_system.py).            *)
(*                                                                         *)
(* DataScheduler wraps an APScheduler 3.x BackgroundScheduler.  The calls  *)
(* it makes on that object are modelled by the Lib* operators below, after *)
(* the library's behaviour:                                                *)
(*   - add_job on a scheduler that is not running appends the job to the   *)
(*     list of pending jobs ("scheduled tentatively"); start() moves the   *)
(*     pending jobs, in order, into the job store, where replace_existing  *)
(*     makes a later job of an id replace an earlier one;                  *)
(*   - add_job on a running scheduler writes the job store directly, and   *)
(*     replace_existing replaces a job of the same id;                     *)
(*   - get_job, get_jobs and remove_job look at the pending jobs while the *)
(*     scheduler is stopped and at the job store otherwise; remove_job     *)
(*     raises JobLookupError for an id it does not find;                   *)
(*   - the executor counts the running instances of each job id and        *)
(*     refuses a submission (a skipped run) at max_instances;              *)
(*   - shutdown() (wait=True) marks the scheduler stopped, waits for the   *)
(*     executor to drain and shuts down the in-memory job store, which     *)
(*     drops its jobs.                                                     *)
(* A scheduler started again after a shutdown is taken to run jobs as a    *)
(* fresh one does, which allows every execution the library allows.        *)
(* Jobs run on the executor's worker threads; the DataScheduler methods    *)
(* are called from one application thread ("the caller").                  *)
(***************************************************************************)
EXTENDS Integers, Sequences, FiniteSets, TLC

VARIABLES
    is_running,   \* DataScheduler.is_running
    jobs,         \* DataScheduler.jobs: the metadata registry, job id -> metadata
    state,        \* BackgroundScheduler.state: "stopped" | "running"
    pending,      \* the scheduler's pending jobs, as the subsequence of each id
    store,        \* the scheduler's job store: job id -> job, or NoJob
    running,      \* the executor's running trigger-fired instances per id (their funcs)
    caller,       \* where the calling thread is: idle, inside run_job_now, inside stop
    last,         \* the last thing observed: a call's return value or a job event
    collection,       \* RAGSystem.collection: the chunks of the Chroma collection, in
                      \* insertion order
    ollama_client,    \* RAGSystem.ollama_client is not None
    embedding_model,  \* RAGSystem.embedding_model is not None
    response,         \* what the last call of a RAGSystem method returned
    clock,            \* datetime.now(), in ticks
    chunk_input,      \* a call of _chunk_text: the word count of its text, and the
                      \* CHUNK_SIZE and CHUNK_OVERLAP it runs with
    chunk_output,     \* what that call returned, once it has
    today,            \* datetime.now() when a scheduled task runs: year and month
    task_run          \* the last run of an extraction task: what it asked the
                      \* extractor for, and what the extractor delivered

schedVars == <<is_running, jobs, state, pending, store, running, caller, last>>

ragVars == <<collection, ollama_client, embedding_model, response, clock>>

chunkVars == <<chunk_input, chunk_output>>

taskVars == <<today, task_run>>

vars == <<is_running, jobs, state, pending, store, running, caller, last,
          collection, ollama_client, embedding_model, response, clock,
          chunk_input, chunk_output, today, task_run>>

-----------------------------------------------------------------------------
(* Bounds and inputs *)

\* At most this many jobs in the scheduler's list of pending jobs (four after
\* construction).
MaxPending == 5

\* max_instances=1 of every add_job call.
MAX_INSTANCES == 1

JobIds == {"daily_extraction", "weekly_full_sync", "daily_backup", "health_check",
           "custom_job"}

\* The job_id each add_* method is called with: the ids _setup_default_jobs uses,
\* and one id for custom jobs.
DailyIds == {"daily_extraction"}
WeeklyIds == {"weekly_full_sync"}
BackupIds == {"daily_backup"}
HealthIds == {"health_check"}
CustomIds == {"custom_job"}

\* The job ids whose triggers fire and that remove_job and run_job_now are called
\* with; the other default jobs stay as they were registered.
ExercisedIds == {"daily_extraction", "custom_job"}

\* A "HH:MM" string after split(':'): the list of its parts, a part that is not a
\* number written -1.
DailyTimes == {<<9, 0>>, <<25, 0>>, <<9>>, <<-1, 0>>}

BackupTimes == {<<2, 0>>, <<2>>}

CompanyLists == {"first5", "NVDA"}

DayInputs == {"sunday"}

IntervalInputs == {6}

\* add_custom_job's func: a named function, or a callable with no __name__
\* (a functools.partial, an instance with __call__).
CustomFuncs == {"custom_task", "partial"}

TriggerTypes == {"interval", "bogus"}

\* At most this many chunks in the collection.
MaxChunks == 3

\* The ticks the clock may advance.
MaxClock == 1

\* len([0.0] * 384), the fallback embedding of _generate_embedding
ZeroEmbeddingDim == 384

\* The dimension of the embeddings all-MiniLM-L6-v2 produces
MiniLMDim == 384

\* config.py.  Similarity scores and distances are counted in hundredths.
CHUNK_SIZE == 1000

CHUNK_OVERLAP == 200

SIMILARITY_THRESHOLD == 70

MAX_RETRIEVAL_RESULTS == 5

Companies == {"NVDA", "AAPL"}

\* What a text is about: the place of its embedding among the embeddings.
Topics == 1 .. 3

QueryTopics == {1}

\* len(content.split()) of the documents added.
WordCounts == {0, 1, 1001, 1801}

\* (datetime.now() - latest_date).days at a call of get_collection_stats
DaysSinceInputs == {0, 3}

\* search_documents' n_results
NResults == {0, 1, MAX_RETRIEVAL_RESULTS}

Quarters == {"Q1", "Q2"}

\* The documents added: drawn from WordCounts, Topics, Companies and Quarters.
Documents ==
    {[words |-> 1, topic |-> 1, company |-> "NVDA", quarter |-> "Q1"],
     [words |-> 1, topic |-> 2, company |-> "NVDA", quarter |-> "Q2"],
     [words |-> 1001, topic |-> 1, company |-> "AAPL", quarter |-> "Q1"],
     [words |-> 1, topic |-> 3, company |-> "AAPL", quarter |-> "Q2"],
     [words |-> 1801, topic |-> 3, company |-> "NVDA", quarter |-> "Q1"],
     [words |-> 0, topic |-> 1, company |-> "NVDA", quarter |-> "Q1"]}

\* The keys of a filters dict.
FilterKeys == {"company", "quarter"}

\* filters: a dict of the keys company and quarter, "" for a key that is absent or
\* empty (both "" also stands for filters=None), 'All' for every value.
FilterInputs ==
    {[company |-> "", quarter |-> ""],
     [company |-> "All", quarter |-> "All"],
     [company |-> "NVDA", quarter |-> "All"],
     [company |-> "ACME", quarter |-> ""],
     [company |-> "NVDA", quarter |-> "Q2"]}

\* _chunk_text is run on texts of up to MaxWords words with every chunk size up
\* to MaxChunkSize and every overlap below the chunk size, and with the sizes of
\* config.py on texts of the word counts ConfigWordCounts.
MaxWords == 9

MaxChunkSize == 4

\* list(COMPANIES.keys()), two of them
AllCompanies == {"NVDA", "MSFT"}

\* The companies argument of the daily extraction job
CompanyArgs == {{"NVDA"}, {"NVDA", "MSFT"}}

\* The years in which the tasks run
FirstYear == 2024

LastYear == 2025

\* The dates on which the tasks run: year and month
Dates == {[year |-> y, month |-> m] : y \in FirstYear .. LastYear, m \in 1 .. 12}

ConfigWordCounts == {0, 1, 200, 201, 1000, 1001, 1800, 1801, 2400}

ChunkInputs ==
    {[words |-> n, chunk_size |-> size, overlap |-> o] :
        n \in 0 .. MaxWords, size \in 1 .. MaxChunkSize, o \in 0 .. MaxChunkSize - 1}
    \cup {[words |-> n, chunk_size |-> CHUNK_SIZE, overlap |-> CHUNK_OVERLAP] :
             n \in ConfigWordCounts}

-----------------------------------------------------------------------------
(* Values *)

\* A trigger: <<kind, day of week, hour, minute, interval hours>>, -1 where unused.
NoTrigger == <<"-", -1, -1, -1, -1>>

NoJob == [func |-> "-", trigger |-> NoTrigger, args |-> "-"]

\* An entry of self.jobs (its 'created' timestamp is left out).
NoMeta == [type |-> "-", time |-> <<>>, day |-> "-", interval_hours |-> -1,
           companies |-> "-", function |-> "-", trigger |-> "-"]

Idle == [pc |-> "idle", id |-> "-", func |-> "-", args |-> "-"]

\* A call that has returned: its return value or, for start and stop, which return
\* nothing, the line they log.
Called(op, ret) == [op |-> op, ret |-> ret]

\* An event of the scheduler: job_submitted, job_max_instances, job_executed,
\* job_error.
Event(type) == [op |-> type, ret |-> "-"]

-----------------------------------------------------------------------------
(* Helpers *)

\* hour, minute = map(int, time.split(':')) and CronTrigger(hour=, minute=):
\* ValueError unless there are exactly two numeric parts in range.
TimeOk(t) ==
    /\ Len(t) = 2
    /\ t[1] >= 0 /\ t[1] <= 23
    /\ t[2] >= 0 /\ t[2] <= 59

\* CronTrigger(hour=hour, minute=minute)
CronDaily(t) == <<"cron", -1, t[1], t[2], -1>>

\* day_mapping.get(day.lower(), 6)
DayNum(day) ==
    CASE day = "monday" -> 0
      [] day = "tuesday" -> 1
      [] day = "wednesday" -> 2
      [] day = "thursday" -> 3
      [] day = "friday" -> 4
      [] day = "saturday" -> 5
      [] day = "sunday" -> 6
      [] OTHER -> 6

\* CronTrigger(day_of_week=day_num, hour=1, minute=0)
CronWeekly(day) == <<"cron", DayNum(day), 1, 0, -1>>

\* trigger='interval', hours=interval_hours
IntervalOf(hours) == <<"interval", -1, -1, -1, hours>>

\* The tasks of DataScheduler wrap their whole body in try/except Exception.
CatchesOwnErrors(func) ==
    func \in {"_daily_extraction_task", "_weekly_full_sync_task", "_backup_task",
              "_health_check_task"}

\* func.__name__ exists
HasName(func) == func # "partial"

\* scheduler.get_job(job_id)
LibGetJob(id) ==
    IF state = "stopped"
    THEN IF pending[id] = <<>> THEN NoJob ELSE Head(pending[id])
    ELSE store[id]

\* How often scheduler.get_jobs() lists a job of this id.
LibJobCount(id) ==
    IF state = "stopped"
    THEN Len(pending[id])
    ELSE IF store[id] = NoJob THEN 0 ELSE 1

\* The ids scheduler.get_jobs() lists.
LibJobIds == {id \in JobIds : LibJobCount(id) > 0}

RECURSIVE SumLen(_, _)
SumLen(p, S) ==
    IF S = {} THEN 0
    ELSE LET x == CHOOSE y \in S : TRUE IN Len(p[x]) + SumLen(p, S \ {x})

\* len(scheduler._pending_jobs)
PendingLen == SumLen(pending, JobIds)

\* scheduler.add_job(..., id=id, replace_existing=True, max_instances=1)
LibAddJob(id, job) ==
    IF state = "stopped"
    THEN /\ PendingLen < MaxPending
         /\ pending' = [pending EXCEPT ![id] = Append(@, job)]
         /\ store' = store
    ELSE /\ store' = [store EXCEPT ![id] = job]
         /\ pending' = pending

\* scheduler.remove_job(job_id) where the job is found
LibRemoveJob(id) ==
    IF state = "stopped"
    THEN /\ pending' = [pending EXCEPT ![id] = Tail(@)]
         /\ store' = store
    ELSE /\ store' = [store EXCEPT ![id] = NoJob]
         /\ pending' = pending

\* The executor's _instances[job.id]
Instances(id) == Len(running[id])

\* Executions of job id's function in flight: the executor's and the caller's.
InFlight(id) ==
    Instances(id) + (IF caller.pc = "run_now" /\ caller.id = id THEN 1 ELSE 0)

-----------------------------------------------------------------------------
(* Construction *)

DefaultJob(id) ==
    CASE id = "daily_extraction" ->
            [func |-> "_daily_extraction_task", trigger |-> CronDaily(<<9, 0>>),
             args |-> "first5"]
      [] id = "weekly_full_sync" ->
            [func |-> "_weekly_full_sync_task", trigger |-> CronWeekly("sunday"),
             args |-> "-"]
      [] id = "daily_backup" ->
            [func |-> "_backup_task", trigger |-> CronDaily(<<2, 0>>), args |-> "-"]
      [] id = "health_check" ->
            [func |-> "_health_check_task", trigger |-> IntervalOf(6), args |-> "-"]
      [] OTHER -> NoJob

DefaultMeta(id) ==
    CASE id = "daily_extraction" ->
            [NoMeta EXCEPT !.type = "daily_extraction", !.time = <<9, 0>>,
                           !.companies = "first5"]
      [] id = "weekly_full_sync" ->
            [NoMeta EXCEPT !.type = "weekly_full_sync", !.day = "sunday"]
      [] id = "daily_backup" ->
            [NoMeta EXCEPT !.type = "backup", !.time = <<2, 0>>]
      [] id = "health_check" ->
            [NoMeta EXCEPT !.type = "health_check", !.interval_hours = 6]
      [] OTHER -> NoMeta

SchedInit ==
    /\ is_running = FALSE
    /\ jobs = [id \in JobIds |-> DefaultMeta(id)]
    /\ state = "stopped"
    /\ pending = [id \in JobIds |->
                    IF DefaultJob(id) = NoJob THEN <<>> ELSE <<DefaultJob(id)>>]
    /\ store = [id \in JobIds |-> NoJob]
    /\ running = [id \in JobIds |-> <<>>]
    /\ caller = Idle
    /\ last = Called("__init__", "-")

-----------------------------------------------------------------------------
(* DataScheduler's methods, called from the application thread *)

Start ==
    /\ caller.pc = "idle"
    /\ IF ~is_running
       THEN \* scheduler.start(): the pending jobs go to the job store, in order
            /\ store' = [id \in JobIds |->
                           IF pending[id] = <<>> THEN store[id]
                           ELSE pending[id][Len(pending[id])]]
            /\ pending' = [id \in JobIds |-> <<>>]
            /\ state' = "running"
            /\ is_running' = TRUE
            /\ last' = Called("start", "Scheduler started successfully")
       ELSE /\ UNCHANGED <<store, pending, state, is_running>>
            /\ last' = Called("start", "Scheduler is already running")
    /\ UNCHANGED <<jobs, running, caller>>
    /\ UNCHANGED <<ragVars, chunkVars, taskVars>>

\* Mutant: shutdown(wait=False), which does not wait for the running jobs.
ShutdownNoWait == TRUE

\* executor.shutdown(wait=True) returns once no submitted job is running
ShutdownDrained == \A id \in JobIds : running[id] = <<>>

\* stop() up to where scheduler.shutdown() blocks
StopCall ==
    /\ caller.pc = "idle"
    /\ IF is_running
       THEN /\ state' = "stopped"
            /\ caller' = [Idle EXCEPT !.pc = "stopping"]
            /\ last' = last
       ELSE /\ UNCHANGED <<state, caller>>
            /\ last' = Called("stop", "Scheduler is not running")
    /\ UNCHANGED <<is_running, jobs, pending, store, running>>
    /\ UNCHANGED <<ragVars, chunkVars, taskVars>>

\* Mutant: stop() without its self.is_running = False.
StopReturnKeepsFlag ==
    /\ caller.pc = "stopping"
    /\ ShutdownDrained
    /\ store' = [id \in JobIds |-> NoJob]
    /\ caller' = Idle
    /\ last' = Called("stop", "Scheduler stopped successfully")
    /\ UNCHANGED <<is_running, jobs, state, pending, running>>
    /\ UNCHANGED <<ragVars, chunkVars, taskVars>>

\* scheduler.shutdown() returns, and stop() after it
StopReturn ==
    /\ caller.pc = "stopping"
    /\ ShutdownDrained
    /\ store' = [id \in JobIds |-> NoJob]
    /\ is_running' = FALSE
    /\ caller' = Idle
    /\ last' = Called("stop", "Scheduler stopped successfully")
    /\ UNCHANGED <<jobs, state, pending, running>>
    /\ UNCHANGED <<ragVars, chunkVars, taskVars>>

AddDailyExtractionJob(time, companies, id) ==
    /\ caller.pc = "idle"
    /\ IF TimeOk(time)
       THEN /\ LibAddJob(id, [func |-> "_daily_extraction_task",
                              trigger |-> CronDaily(time), args |-> companies])
            /\ jobs' = [jobs EXCEPT ![id] =
                          [NoMeta EXCEPT !.type = "daily_extraction", !.time = time,
                                         !.companies = companies]]
            /\ last' = Called("add_daily_extraction_job", id)
       ELSE /\ UNCHANGED <<pending, store, jobs>>
            /\ last' = Called("add_daily_extraction_job", "None")
    /\ UNCHANGED <<is_running, state, running, caller>>
    /\ UNCHANGED <<ragVars, chunkVars, taskVars>>

AddWeeklyFullSyncJob(day, id) ==
    /\ caller.pc = "idle"
    /\ LibAddJob(id, [func |-> "_weekly_full_sync_task", trigger |-> CronWeekly(day),
                      args |-> "-"])
    /\ jobs' = [jobs EXCEPT ![id] =
                  [NoMeta EXCEPT !.type = "weekly_full_sync", !.day = day]]
    /\ last' = Called("add_weekly_full_sync_job", id)
    /\ UNCHANGED <<is_running, state, running, caller>>
    /\ UNCHANGED <<ragVars, chunkVars, taskVars>>

AddBackupJob(time, id) ==
    /\ caller.pc = "idle"
    /\ IF TimeOk(time)
       THEN /\ LibAddJob(id, [func |-> "_backup_task", trigger |-> CronDaily(time),
                              args |-> "-"])
            /\ jobs' = [jobs EXCEPT ![id] =
                          [NoMeta EXCEPT !.type = "backup", !.time = time]]
            /\ last' = Called("add_backup_job", id)
       ELSE /\ UNCHANGED <<pending, store, jobs>>
            /\ last' = Called("add_backup_job", "None")
    /\ UNCHANGED <<is_running, state, running, caller>>
    /\ UNCHANGED <<ragVars, chunkVars, taskVars>>

AddHealthCheckJob(interval_hours, id) ==
    /\ caller.pc = "idle"
    /\ LibAddJob(id, [func |-> "_health_check_task",
                      trigger |-> IntervalOf(interval_hours), args |-> "-"])
    /\ jobs' = [jobs EXCEPT ![id] =
                  [NoMeta EXCEPT !.type = "health_check",
                                 !.interval_hours = interval_hours]]
    /\ last' = Called("add_health_check_job", id)
    /\ UNCHANGED <<is_running, state, running, caller>>
    /\ UNCHANGED <<ragVars, chunkVars, taskVars>>

AddCustomJob(func, trigger_type, id) ==
    /\ caller.pc = "idle"
    /\ IF trigger_type = "interval"
       THEN /\ LibAddJob(id, [func |-> func, trigger |-> IntervalOf(0), args |-> "-"])
            /\ IF HasName(func)
               THEN /\ jobs' = [jobs EXCEPT ![id] =
                                  [NoMeta EXCEPT !.type = "custom", !.function = func,
                                                 !.trigger = trigger_type]]
                    /\ last' = Called("add_custom_job", id)
               ELSE \* func.__name__ raises after add_job has returned
                    /\ jobs' = jobs
                    /\ last' = Called("add_custom_job", "None")
       ELSE \* add_job raises: no trigger by that name
            /\ UNCHANGED <<pending, store, jobs>>
            /\ last' = Called("add_custom_job", "None")
    /\ UNCHANGED <<is_running, state, running, caller>>
    /\ UNCHANGED <<ragVars, chunkVars, taskVars>>

\* Mutant: the metadata entry is deleted before scheduler.remove_job is called.
RemoveJobDropsMetadataFirst(id) ==
    /\ caller.pc = "idle"
    /\ jobs' = [jobs EXCEPT ![id] = NoMeta]
    /\ IF LibJobCount(id) > 0
       THEN /\ LibRemoveJob(id)
            /\ last' = Called("remove_job", "True")
       ELSE /\ UNCHANGED <<pending, store>>
            /\ last' = Called("remove_job", "False")
    /\ UNCHANGED <<is_running, state, running, caller>>
    /\ UNCHANGED <<ragVars, chunkVars, taskVars>>

RemoveJob(id) ==
    /\ caller.pc = "idle"
    /\ IF LibJobCount(id) > 0
       THEN /\ LibRemoveJob(id)
            /\ jobs' = [jobs EXCEPT ![id] = NoMeta]
            /\ last' = Called("remove_job", "True")
       ELSE \* scheduler.remove_job raises JobLookupError
            /\ UNCHANGED <<pending, store, jobs>>
            /\ last' = Called("remove_job", "False")
    /\ UNCHANGED <<is_running, state, running, caller>>
    /\ UNCHANGED <<ragVars, chunkVars, taskVars>>

\* run_job_now up to the call of job.func(*job.args, **job.kwargs)
RunJobNowCall(id) ==
    /\ caller.pc = "idle"
    /\ IF LibGetJob(id) # NoJob
       THEN /\ caller' = [pc |-> "run_now", id |-> id, func |-> LibGetJob(id).func,
                          args |-> LibGetJob(id).args]
            /\ last' = last
       ELSE /\ caller' = caller
            /\ last' = Called("run_job_now", "False")
    /\ UNCHANGED <<is_running, jobs, state, pending, store, running>>
    /\ UNCHANGED <<ragVars, chunkVars, taskVars>>

\* job.func returns or raises, and run_job_now after it
RunJobNowReturn(raised) ==
    /\ caller.pc = "run_now"
    /\ caller' = Idle
    /\ last' = Called("run_job_now",
                      IF raised /\ ~CatchesOwnErrors(caller.func)
                      THEN "False" ELSE "True")
    /\ UNCHANGED <<is_running, jobs, state, pending, store, running>>
    /\ UNCHANGED <<ragVars, chunkVars, taskVars>>

-----------------------------------------------------------------------------
(* The scheduler's thread and the executor's workers *)

\* Mutant: max_instances=2.
MaxInstancesTwo(id) == Instances(id) >= 2

\* BaseExecutor.submit_job: _instances[job.id] >= job.max_instances
MaxInstancesReached(id) == Instances(id) >= MAX_INSTANCES

\* The trigger of job id fires
Fire(id) ==
    /\ state = "running"
    /\ store[id] # NoJob
    /\ IF MaxInstancesReached(id)
       THEN /\ running' = running
            /\ last' = Event("job_max_instances")
       ELSE /\ running' = [running EXCEPT ![id] = Append(@, store[id].func)]
            /\ last' = Event("job_submitted")
    /\ UNCHANGED <<is_running, jobs, state, pending, store, caller>>
    /\ UNCHANGED <<ragVars, chunkVars, taskVars>>

\* Mutant: a job whose function raised is taken off the schedule.
FinishUnschedulesOnError(id, raised) ==
    /\ running[id] # <<>>
    /\ running' = [running EXCEPT ![id] = Tail(@)]
    /\ last' = IF raised /\ ~CatchesOwnErrors(Head(running[id]))
               THEN Event("job_error") ELSE Event("job_executed")
    /\ store' = IF raised /\ ~CatchesOwnErrors(Head(running[id]))
                THEN [store EXCEPT ![id] = NoJob] ELSE store
    /\ UNCHANGED <<is_running, jobs, state, pending, caller>>
    /\ UNCHANGED <<ragVars, chunkVars, taskVars>>

\* A running instance of job id ends: its function returned or raised
Finish(id, raised) ==
    /\ running[id] # <<>>
    /\ running' = [running EXCEPT ![id] = Tail(@)]
    /\ last' = IF raised /\ ~CatchesOwnErrors(Head(running[id]))
               THEN Event("job_error") ELSE Event("job_executed")
    /\ UNCHANGED <<is_running, jobs, state, pending, store, caller>>
    /\ UNCHANGED <<ragVars, chunkVars, taskVars>>

-----------------------------------------------------------------------------
(* RAGSystem (src/src/rag_system.py)                                       *)
(*                                                                         *)
(* The Chroma collection is the sequence of its chunks.  collection.query  *)
(* returns the n_results chunks nearest to the query embedding among those *)
(* the where clause matches (fewer when fewer match), nearest first, and   *)
(* raises for n_results < 1; it takes a where clause of one key as an      *)
(* equality constraint and raises for one of several keys ("Expected where *)
(* to have exactly one operator"), which have to be joined under $and;     *)
(* collection.add raises for an empty list of ids.  An embedding is the    *)
(* topic of its text, 0 for the zero vector.                               *)

\* A confidence: the fraction num / den.
Fraction(num, den) == [num |-> num, den |-> den]

\* A return value of get_collection_stats that is no summary: {} , or the
\* return value of another method.  company_distribution and new_documents are
\* left out of the summaries.
NoStats == [total_documents |-> -1, unique_companies |-> -1, latest_quarter |-> "-",
            days_since_update |-> -1]

\* generate_calls counts the calls of ollama_client.generate the method made.
NoResponse == [op |-> "__init__", ret |-> "-", sources |-> <<>>, retrieved |-> 0,
               answer |-> "-", confidence |-> Fraction(0, 1), generate_calls |-> 0,
               stats |-> NoStats]

RECURSIVE ChunksFrom(_, _)
\* _chunk_text's loop from word i of n words: the number of chunks it appends.
ChunksFrom(i, n) ==
    IF i >= n THEN 0
    ELSE IF i + CHUNK_SIZE >= n THEN 1
    ELSE 1 + ChunksFrom(i + (CHUNK_SIZE - CHUNK_OVERLAP), n)

\* len(self._chunk_text(content)) for a content of n words
ChunkCount(n) == ChunksFrom(0, n)

Min(a, b) == IF a < b THEN a ELSE b

\* Mutant: a step of the chunk size, the overlap forgotten.
StrideOfChunkSize(size, overlap) == size

\* The step of range(0, len(words), CHUNK_SIZE - CHUNK_OVERLAP)
Stride(size, overlap) == size - overlap

\* Mutant: words[i:i + CHUNK_SIZE + 1]
SliceOneMore(i, n, size) == Min(i + size + 1, n) - i

\* len(words[i:i + CHUNK_SIZE]) for n words
SliceLen(i, n, size) == Min(i + size, n) - i

\* Mutant: the loop without its break.
NeverBreaks(i, n, size) == FALSE

\* Mutant: > for >= in the test of the break.
BreaksPastEnd(i, n, size) == i + size > n

\* if i + CHUNK_SIZE >= len(words): break
CoveredAllWords(i, n, size) == i + size >= n

RECURSIVE ChunkLoop(_, _, _, _)
\* The loop of _chunk_text from index i: the chunks it appends, each the window
\* of the words it holds (the index of its first word, and how many words).
ChunkLoop(i, n, size, overlap) ==
    IF i >= n THEN <<>>
    ELSE LET chunk == [first |-> i, words |-> SliceLen(i, n, size)]
         IN  IF CoveredAllWords(i, n, size)
             THEN <<chunk>>
             ELSE <<chunk>> \o ChunkLoop(i + Stride(size, overlap), n, size, overlap)

\* Mutant: range(CHUNK_SIZE - CHUNK_OVERLAP, len(words), ...)
ChunkTextSkipsFirst(n, size, overlap) == ChunkLoop(size - overlap, n, size, overlap)

\* range(0, len(words), step) raises ValueError for a step of zero
RangeRaises(size, overlap) == Stride(size, overlap) = 0

\* _chunk_text on a text of n words, with CHUNK_SIZE = size and
\* CHUNK_OVERLAP = overlap; a range of negative step from 0 is empty
ChunkText(n, size, overlap) ==
    IF Stride(size, overlap) <= 0 THEN <<>> ELSE ChunkLoop(0, n, size, overlap)

NotChunked == [done |-> FALSE, chunks |-> <<>>, raised |-> FALSE]

\* No call of _chunk_text under way.
ChunkIdle ==
    /\ chunk_input = [words |-> 0, chunk_size |-> CHUNK_SIZE,
                      overlap |-> CHUNK_OVERLAP]
    /\ chunk_output = NotChunked

\* A text and a configuration with overlap < chunk size, before the call.
ChunkInit ==
    /\ chunk_input \in {c \in ChunkInputs : c.overlap < c.chunk_size}
    /\ chunk_output = NotChunked

\* A text and any configuration: config.py assigns CHUNK_SIZE and CHUNK_OVERLAP
\* and nothing checks them before the first call.
ConfigInit ==
    /\ chunk_input \in ChunkInputs
    /\ chunk_output = NotChunked

\* self._chunk_text(text)
ChunkTextCall ==
    /\ ~chunk_output.done
    /\ chunk_output' = [done |-> TRUE,
                        chunks |-> ChunkText(chunk_input.words, chunk_input.chunk_size,
                                             chunk_input.overlap),
                        raised |-> RangeRaises(chunk_input.chunk_size,
                                               chunk_input.overlap)]
    /\ UNCHANGED <<chunk_input, schedVars, ragVars, taskVars>>

\* _generate_embedding: the zero vector without an embedding model and where
\* embedding_model.encode raises
GenerateEmbedding(topic, raises) == IF embedding_model /\ ~raises THEN topic ELSE 0

\* Mutant: the fallback embedding is the empty list.
EmbeddingDimEmptyFallback(encoded) == IF encoded THEN MiniLMDim ELSE 0

\* len of what _generate_embedding returns: of the model's vector, or of the
\* fallback
EmbeddingDim(encoded) == IF encoded THEN MiniLMDim ELSE ZeroEmbeddingDim

\* The distance Chroma reports between two embeddings, in hundredths: 0 between
\* equal ones, 1.00 between the zero vector and a unit vector, more the further
\* apart the topics.
Distance(e, q) ==
    IF e = q THEN 0
    ELSE IF e = 0 \/ q = 0 THEN 100
    ELSE LET apart == IF e > q THEN e - q ELSE q - e
         IN  CASE apart = 1 -> 30
               [] apart = 2 -> 31
               [] OTHER -> 130

\* The keys of where_clause in search_documents: a filter value that is empty
\* or 'All' is left out.
WhereClause(filters) == {key \in FilterKeys : filters[key] \notin {"", "All"}}

\* The chunks a where clause selects.
WhereMatches(chunk, filters) ==
    \A key \in WhereClause(filters) : chunk[key] = filters[key]

\* collection.query raises: no result asked for, or a where clause of several keys
QueryRaises(n_results, filters) ==
    n_results < 1 \/ Cardinality(WhereClause(filters)) > 1

RECURSIVE Nearest(_, _, _)
\* The k chunks of cands nearest to q, nearest first, the older first among equals.
Nearest(q, cands, k) ==
    IF k <= 0 \/ cands = {} THEN <<>>
    ELSE LET best == CHOOSE i \in cands :
                        \A j \in cands :
                           \/ Distance(collection[i].emb, q) <
                                 Distance(collection[j].emb, q)
                           \/ /\ Distance(collection[i].emb, q) =
                                    Distance(collection[j].emb, q)
                              /\ i <= j
         IN  <<best>> \o Nearest(q, cands \ {best}, k - 1)

\* formatted_results of search_documents
FormattedResults(q, n_results, filters) ==
    LET qe == GenerateEmbedding(q, FALSE)
        cands == {i \in 1 .. Len(collection) : WhereMatches(collection[i], filters)}
        near == Nearest(qe, cands, n_results)
    IN  [i \in 1 .. Len(near) |->
           [company |-> collection[near[i]].company,
            quarter |-> collection[near[i]].quarter,
            chunk_index |-> collection[near[i]].chunk_index,
            score |-> 100 - Distance(collection[near[i]].emb, qe)]]

\* Mutant: no similarity floor.
KeepsEveryScore(score) == TRUE

\* result['score'] >= SIMILARITY_THRESHOLD
MeetsThreshold(score) == score >= SIMILARITY_THRESHOLD

\* What search_documents returns
SearchResults(q, n_results, filters) ==
    IF QueryRaises(n_results, filters)
    THEN <<>>     \* the except branch returns []
    ELSE SelectSeq(FormattedResults(q, n_results, filters),
                   LAMBDA r : MeetsThreshold(r.score))

\* len(formatted_results), 0 where collection.query raised
Retrieved(q, n_results, filters) ==
    IF QueryRaises(n_results, filters)
    THEN 0
    ELSE Len(FormattedResults(q, n_results, filters))

RECURSIVE SumScores(_)
SumScores(docs) ==
    IF docs = <<>> THEN 0 ELSE Head(docs).score + SumScores(Tail(docs))

\* Mutant: the boosted mean as it is.
Unclamped(num, den) == num

\* min(x, 1.0) for x = num / den
ClampToOne(num, den) == IF num < den THEN num ELSE den

\* avg_score = np.mean(scores) if relevant_docs else 0.0;
\* confidence = min(avg_score * 1.2, 1.0): with scores in hundredths the boosted
\* mean is 12 * sum / (1000 * n)
Confidence(docs) ==
    IF docs = <<>>
    THEN Fraction(ClampToOne(0, 1), 1)
    ELSE Fraction(ClampToOne(12 * SumScores(docs), 1000 * Len(docs)),
                  1000 * Len(docs))

\* generate_answer
GenerateAnswer(raised) ==
    IF ~ollama_client THEN "ollama_unavailable"
    ELSE IF raised THEN "generation_error"
    ELSE "generated"

\* The calls of ollama_client.generate that generate_answer makes
GenerateCalls == IF ollama_client THEN 1 ELSE 0

\* Mutant: query without its early return.
NeverEmpty(relevant_docs) == FALSE

\* if not relevant_docs
NoDocs(relevant_docs) == relevant_docs = <<>>

\* The object after __init__, Ollama and the embedding model reached or not.
RagInit(ollama_ok, model_ok) ==
    /\ collection = <<>>
    /\ ollama_client = ollama_ok
    /\ embedding_model = model_ok
    /\ response = NoResponse
    /\ clock = 0

\* The value of late for a batch during which the clock does not advance.
NoTick(words) == IF ChunkCount(words) = 0 THEN 1 ELSE ChunkCount(words)

\* Mutant: chunk_index counted from 1.
NewChunksCountedFromOne(words, topic, company, quarter, failed, late) ==
    [i \in 1 .. ChunkCount(words) |->
       [company |-> company, quarter |-> quarter,
        emb |-> GenerateEmbedding(topic, (i - 1) \in failed),
        dim |-> EmbeddingDim(embedding_model /\ (i - 1) \notin failed),
        chunk_index |-> i, total_chunks |-> ChunkCount(words),
        added_date |-> IF i - 1 >= late THEN clock + 1 ELSE clock]]

\* The chunks add_document prepares: encode raises for the chunks of failed, and
\* the clock advances by a tick before the chunk of index late is prepared.
NewChunks(words, topic, company, quarter, failed, late) ==
    [i \in 1 .. ChunkCount(words) |->
       [company |-> company, quarter |-> quarter,
        emb |-> GenerateEmbedding(topic, (i - 1) \in failed),
        dim |-> EmbeddingDim(embedding_model /\ (i - 1) \notin failed),
        chunk_index |-> i - 1, total_chunks |-> ChunkCount(words),
        added_date |-> IF i - 1 >= late THEN clock + 1 ELSE clock]]

\* collection.add raises: no ids, or embeddings whose dimensions differ from
\* one another or from the collection's
AddRaises(batch) ==
    \/ batch = <<>>
    \/ \E i \in 1 .. Len(batch) :
          \/ batch[i].dim # batch[1].dim
          \/ collection # <<>> /\ batch[i].dim # collection[1].dim

\* Mutant: one collection.add per chunk, of which the second fails.
AddDocumentChunkByChunk(words, topic, company, quarter, failed, late) ==
    /\ Len(collection) + ChunkCount(words) <= MaxChunks
    /\ failed \subseteq 0 .. ChunkCount(words) - 1
    /\ late \in 1 .. NoTick(words)
    /\ clock' = IF late < ChunkCount(words) THEN clock + 1 ELSE clock
    /\ clock' <= MaxClock
    /\ IF ~AddRaises(NewChunks(words, topic, company, quarter, failed, late))
       THEN /\ collection' =
                 Append(collection,
                        NewChunks(words, topic, company, quarter, failed, late)[1])
            /\ response' = [NoResponse EXCEPT
                              !.op = "add_document",
                              !.ret = IF ChunkCount(words) = 1 THEN "True"
                                      ELSE "False"]
       ELSE /\ collection' = collection
            /\ response' = [NoResponse EXCEPT !.op = "add_document",
                                              !.ret = "False"]
    /\ UNCHANGED <<ollama_client, embedding_model>>
    /\ UNCHANGED <<schedVars, chunkVars, taskVars>>

\* Mutant: the ids carry no random suffix and the batch is upserted, so the chunks
\* of an earlier ingestion of the document are replaced.
AddDocumentUpserts(words, topic, company, quarter, failed, late) ==
    /\ Len(collection) + ChunkCount(words) <= MaxChunks
    /\ failed \subseteq 0 .. ChunkCount(words) - 1
    /\ late \in 1 .. NoTick(words)
    /\ clock' = IF late < ChunkCount(words) THEN clock + 1 ELSE clock
    /\ clock' <= MaxClock
    /\ IF ~AddRaises(NewChunks(words, topic, company, quarter, failed, late))
       THEN /\ collection' =
                 SelectSeq(collection,
                           LAMBDA c : c.company # company \/ c.quarter # quarter) \o
                    NewChunks(words, topic, company, quarter, failed, late)
            /\ response' = [NoResponse EXCEPT !.op = "add_document",
                                              !.ret = "True"]
       ELSE /\ collection' = collection
            /\ response' = [NoResponse EXCEPT !.op = "add_document",
                                              !.ret = "False"]
    /\ UNCHANGED <<ollama_client, embedding_model>>
    /\ UNCHANGED <<schedVars, chunkVars, taskVars>>

AddDocument(words, topic, company, quarter, failed, late) ==
    /\ Len(collection) + ChunkCount(words) <= MaxChunks
    /\ failed \subseteq 0 .. ChunkCount(words) - 1
    /\ late \in 1 .. NoTick(words)
    /\ clock' = IF late < ChunkCount(words) THEN clock + 1 ELSE clock
    /\ clock' <= MaxClock
    /\ IF ~AddRaises(NewChunks(words, topic, company, quarter, failed, late))
       THEN /\ collection' =
                 collection \o
                    NewChunks(words, topic, company, quarter, failed, late)
            /\ response' = [NoResponse EXCEPT !.op = "add_document",
                                              !.ret = "True"]
       ELSE \* the except branch returns False
            /\ collection' = collection
            /\ response' = [NoResponse EXCEPT !.op = "add_document",
                                              !.ret = "False"]
    /\ UNCHANGED <<ollama_client, embedding_model>>
    /\ UNCHANGED <<schedVars, chunkVars, taskVars>>

SearchDocuments(q, n_results, filters) ==
    /\ response' = [NoResponse EXCEPT
                      !.op = "search_documents",
                      !.sources = SearchResults(q, n_results, filters),
                      !.retrieved = Retrieved(q, n_results, filters)]
    /\ UNCHANGED <<collection, ollama_client, embedding_model, clock>>
    /\ UNCHANGED <<schedVars, chunkVars, taskVars>>

Query(q, filters, raised) ==
    /\ LET relevant_docs == SearchResults(q, MAX_RETRIEVAL_RESULTS, filters)
       IN  response' =
             IF NoDocs(relevant_docs)
             THEN [NoResponse EXCEPT
                     !.op = "query",
                     !.retrieved = Retrieved(q, MAX_RETRIEVAL_RESULTS, filters),
                     !.answer = "no_information"]
             ELSE [NoResponse EXCEPT
                     !.op = "query",
                     !.sources = relevant_docs,
                     !.retrieved = Retrieved(q, MAX_RETRIEVAL_RESULTS, filters),
                     !.answer = GenerateAnswer(raised),
                     !.generate_calls = GenerateCalls,
                     !.confidence = Confidence(relevant_docs)]
    /\ UNCHANGED <<collection, ollama_client, embedding_model, clock>>
    /\ UNCHANGED <<schedVars, chunkVars, taskVars>>

\* The order of the 'year quarter' strings, all of one year.
QuarterRank(quarter) == IF quarter = "Q1" THEN 1 ELSE 2

\* max(quarters)
LatestQuarter ==
    LET q == {collection[i].quarter : i \in 1 .. Len(collection)}
    IN  CHOOSE x \in q : \A y \in q : QuarterRank(y) <= QuarterRank(x)

\* Mutant: the summary of an empty collection with max(quarters, default='').
EmptyStatsWithoutPeriod ==
    [total_documents |-> 0, unique_companies |-> 0, latest_quarter |-> "",
     days_since_update |-> 0]

\* The summary get_collection_stats returns for no metadatas
EmptyStats ==
    [total_documents |-> 0, unique_companies |-> 0, latest_quarter |-> "N/A",
     days_since_update |-> 0]

GetCollectionStats(days) ==
    /\ response' =
          [NoResponse EXCEPT
             !.op = "get_collection_stats",
             !.stats =
                IF collection = <<>>
                THEN EmptyStats
                ELSE [total_documents |-> Len(collection),
                      unique_companies |->
                         Cardinality({collection[i].company :
                                         i \in 1 .. Len(collection)}),
                      latest_quarter |-> LatestQuarter,
                      days_since_update |-> days]]
    /\ UNCHANGED <<collection, ollama_client, embedding_model, clock>>
    /\ UNCHANGED <<schedVars, chunkVars, taskVars>>

DeleteDocuments(company) ==
    /\ IF \E i \in 1 .. Len(collection) : collection[i].company = company
       THEN /\ collection' = SelectSeq(collection, LAMBDA c : c.company # company)
            /\ response' = [NoResponse EXCEPT !.op = "delete_documents",
                                              !.ret = "True"]
       ELSE /\ collection' = collection
            /\ response' = [NoResponse EXCEPT !.op = "delete_documents",
                                              !.ret = "False"]
    /\ UNCHANGED <<ollama_client, embedding_model, clock>>
    /\ UNCHANGED <<schedVars, chunkVars, taskVars>>

ResetCollection ==
    /\ collection' = <<>>
    /\ response' = [NoResponse EXCEPT !.op = "reset_collection", !.ret = "True"]
    /\ UNCHANGED <<ollama_client, embedding_model, clock>>
    /\ UNCHANGED <<schedVars, chunkVars, taskVars>>

-----------------------------------------------------------------------------
(* The extraction tasks of DataScheduler (src/src/scheduler.py), with      *)
(* EarningsExtractor.batch_extract (src/src/data_extractor.py).  A period  *)
(* is <<year, quarter number>>, a request <<company, year, quarter number>>. *)

NoRun == [task |-> "-", requests |-> {}, successful |-> {}]

\* No task has run.
TaskIdle ==
    /\ today = [year |-> LastYear, month |-> 1]
    /\ task_run = NoRun

\* The tasks are about to run on one of the dates.
TaskInit ==
    /\ today \in Dates
    /\ task_run = NoRun

\* (now.month - 1) // 3 + 1
CurrentQuarter(now) == (now.month - 1) \div 3 + 1

\* prev_quarter_num, 4 before the first quarter
PrevQuarter(now) ==
    IF CurrentQuarter(now) - 1 < 1 THEN 4 ELSE CurrentQuarter(now) - 1

\* Mutant: the year of the previous quarter is always this year.
PrevYearIsThisYear(now) == now.year

\* prev_year, last year before the first quarter
PrevYear(now) == IF CurrentQuarter(now) - 1 < 1 THEN now.year - 1 ELSE now.year

\* The calls of extract_earnings_call that batch_extract makes: one for every
\* company, year and quarter of its arguments
BatchExtract(companies, years, quarters) ==
    {<<c, y, q>> : c \in companies, y \in years, q \in quarters}

\* _daily_extraction_task(companies); the extractor delivers nothing for the
\* companies of failing.  The loop over results['details'] does nothing.
DailyExtractionTask(companies, failing) ==
    /\ task_run' =
          [task |-> "daily",
           requests |-> BatchExtract(companies, {today.year}, {CurrentQuarter(today)}),
           successful |->
              {r \in BatchExtract(companies, {today.year}, {CurrentQuarter(today)}) :
                  r[1] \notin failing}]
    /\ UNCHANGED <<today, schedVars, ragVars, chunkVars>>

\* _weekly_full_sync_task()
WeeklyFullSyncTask(failing) ==
    /\ task_run' =
          [task |-> "weekly",
           requests |-> BatchExtract(AllCompanies, {PrevYear(today), today.year},
                                     {PrevQuarter(today), CurrentQuarter(today)}),
           successful |->
              {r \in BatchExtract(AllCompanies, {PrevYear(today), today.year},
                                  {PrevQuarter(today), CurrentQuarter(today)}) :
                  r[1] \notin failing}]
    /\ UNCHANGED <<today, schedVars, ragVars, chunkVars>>

-----------------------------------------------------------------------------
(* The scheduler and the RAG system share no state: the scheduler's        *)
(* behaviours are explored beside a RAG system that is left alone, the RAG *)
(* system's beside a scheduler that is left alone.                         *)

Init == SchedInit /\ RagInit(TRUE, TRUE) /\ ChunkIdle /\ TaskIdle

Next ==
    \/ Start
    \/ StopCall
    \/ StopReturn
    \/ \E t \in DailyTimes, c \in CompanyLists, id \in DailyIds :
          AddDailyExtractionJob(t, c, id)
    \/ \E d \in DayInputs, id \in WeeklyIds : AddWeeklyFullSyncJob(d, id)
    \/ \E t \in BackupTimes, id \in BackupIds : AddBackupJob(t, id)
    \/ \E h \in IntervalInputs, id \in HealthIds : AddHealthCheckJob(h, id)
    \/ \E f \in CustomFuncs, tt \in TriggerTypes, id \in CustomIds :
          AddCustomJob(f, tt, id)
    \/ \E id \in ExercisedIds : RemoveJob(id)
    \/ \E id \in ExercisedIds : RunJobNowCall(id)
    \/ \E r \in BOOLEAN : RunJobNowReturn(r)
    \/ \E id \in ExercisedIds : Fire(id)
    \/ \E id \in JobIds, r \in BOOLEAN : Finish(id, r)

Spec == Init /\ [][Next]_vars

\* The registration calls and remove_job alone, on a scheduler that is never
\* started.
RegNext ==
    \/ \E t \in DailyTimes, c \in CompanyLists, id \in DailyIds :
          AddDailyExtractionJob(t, c, id)
    \/ \E d \in DayInputs, id \in WeeklyIds : AddWeeklyFullSyncJob(d, id)
    \/ \E t \in BackupTimes, id \in BackupIds : AddBackupJob(t, id)
    \/ \E h \in IntervalInputs, id \in HealthIds : AddHealthCheckJob(h, id)
    \/ \E f \in CustomFuncs, tt \in TriggerTypes, id \in CustomIds :
          AddCustomJob(f, tt, id)
    \/ \E id \in JobIds : RemoveJob(id)

RegSpec == Init /\ [][RegNext]_vars

RagInitAll ==
    SchedInit /\ ChunkIdle /\ TaskIdle /\ \E o \in BOOLEAN, m \in BOOLEAN : RagInit(o, m)

RagNext ==
    \/ \E d \in Documents :
          AddDocument(d.words, d.topic, d.company, d.quarter, {}, NoTick(d.words))
    \/ \E q \in QueryTopics, n \in NResults, f \in FilterInputs :
          SearchDocuments(q, n, f)
    \/ \E q \in QueryTopics, f \in FilterInputs, r \in BOOLEAN : Query(q, f, r)
    \/ \E d \in DaysSinceInputs : GetCollectionStats(d)
    \/ \E c \in Companies : DeleteDocuments(c)
    \/ ResetCollection

RagSpec == RagInitAll /\ [][RagNext]_vars

\* Ingestion with its faults: embedding_model.encode raising for some chunks, and
\* time passing while a batch is prepared.
IngestNext ==
    \/ \E d \in Documents, failed \in SUBSET (0 .. MaxChunks - 1),
          late \in 1 .. MaxChunks :
          AddDocument(d.words, d.topic, d.company, d.quarter, failed, late)
    \/ \E c \in Companies : DeleteDocuments(c)
    \/ ResetCollection

IngestSpec == RagInitAll /\ [][IngestNext]_vars

ChunkInitAll == SchedInit /\ RagInit(TRUE, TRUE) /\ ChunkInit /\ TaskIdle

ChunkNext == ChunkTextCall

ChunkSpec == ChunkInitAll /\ [][ChunkNext]_vars

ConfigInitAll == SchedInit /\ RagInit(TRUE, TRUE) /\ ConfigInit /\ TaskIdle

ConfigNext == ChunkTextCall

ConfigSpec == ConfigInitAll /\ [][ConfigNext]_vars

TaskInitAll == SchedInit /\ RagInit(TRUE, TRUE) /\ ChunkIdle /\ TaskInit

TaskNext ==
    \/ \E c \in CompanyArgs, f \in SUBSET AllCompanies : DailyExtractionTask(c, f)
    \/ \E f \in SUBSET AllCompanies : WeeklyFullSyncTask(f)

TaskSpec == TaskInitAll /\ [][TaskNext]_vars

-----------------------------------------------------------------------------
(* Properties of the scheduler *)

\* C1: for every job id, at no time are two executions of the job's function in
\* flight, executions started by a trigger and by run_job_now both counted.
\* (Violated: run_job_now calls job.func itself, past the executor's count.)
C1_AtMostOneExecutionInFlight == \A id \in JobIds : InFlight(id) <= 1

\* C2: after any sequence of add_*_job and remove_job calls the scheduler lists at
\* most one job per id.
\* (Violated: jobs added to a scheduler that is not running pile up as pending.)
C2_OneRegisteredJobPerId == \A id \in JobIds : LibJobCount(id) <= 1

\* C3: remove_job(id) for an id the scheduler does not hold returns False and
\* leaves the registered jobs, the metadata registry and the running flag as they
\* were.
C3_RemoveAbsentIsNoOp ==
    [][\A id \in JobIds :
         (RemoveJob(id) /\ LibJobCount(id) = 0) =>
            /\ last' = Called("remove_job", "False")
            /\ UNCHANGED <<pending, store, state, jobs, is_running, running>>]_vars

C3_Witness ==
    /\ last = Called("remove_job", "False")
    /\ \E id \in ExercisedIds : LibJobCount(id) = 0 /\ jobs[id] # NoMeta

\* C4: stop() on a running scheduler returns only when no job invocation is still
\* executing, and from the call of stop() until start() no trigger starts one.
C4_StopDrainsAndSuppresses ==
    [][/\ (caller.pc = "stopping" /\ caller'.pc = "idle") =>
              \A id \in JobIds : running[id] = <<>> /\ running'[id] = <<>>
       /\ state = "stopped" =>
              \A id \in JobIds : Len(running'[id]) <= Len(running[id])]_vars

C4_Witness ==
    /\ caller.pc = "stopping"
    /\ state = "stopped"
    /\ \E id \in JobIds : running[id] # <<>>

\* C5: the scheduler is Stopped after construction, Running after start() and
\* Stopped after stop(); start() while Running and stop() while Stopped change
\* neither the running flag nor the registered jobs, and return normally.
C5_Lifecycle ==
    /\ is_running = FALSE
    /\ [][/\ Start => /\ is_running'
                      /\ last'.op = "start"
                      /\ is_running =>
                            /\ LibJobIds' = LibJobIds
                            /\ UNCHANGED <<pending, store, state, jobs>>
          /\ StopReturn => ~is_running' /\ last'.op = "stop"
          /\ (StopCall /\ ~is_running) =>
                /\ ~is_running'
                /\ last'.op = "stop"
                /\ LibJobIds' = LibJobIds
                /\ UNCHANGED <<pending, store, state, jobs>>]_vars

C5_Witness ==
    /\ last = Called("start", "Scheduler is already running")
    /\ is_running
    /\ LibJobIds # {}

C7_TaskErrorIsContained ==
    [][\A id \in JobIds :
         Finish(id, TRUE) =>
            /\ UNCHANGED <<store, pending, jobs, is_running, state, caller>>
            /\ \A j \in JobIds \ {id} : running'[j] = running[j]
            /\ Len(running'[id]) = Len(running[id]) - 1
            /\ ~MaxInstancesReached(id)']_vars

C7_Witness ==
    /\ last = Event("job_error")
    /\ state = "running"
    /\ store["custom_job"] # NoJob

\* C8: a trigger that fires while an instance of the job is still executing starts
\* nothing and queues nothing: an instance starts only at a firing that finds none
\* running.
C8_OverlappingFireIsSkipped ==
    [][\A id \in JobIds :
         /\ (Fire(id) /\ running[id] # <<>>) =>
               /\ running' = running
               /\ last' = Event("job_max_instances")
         /\ Len(running'[id]) > Len(running[id]) =>
               Fire(id) /\ running[id] = <<>>
         /\ (\E r \in BOOLEAN : Finish(id, r)) => running'[id] = <<>>]_vars

C8_Witness ==
    /\ last = Event("job_max_instances")
    /\ \E id \in JobIds : running[id] # <<>>

\* The ids of the metadata registry self.jobs
MetaIds == {id \in JobIds : jobs[id] # NoMeta}

\* C28: after any sequence of registration calls (add_custom_job included, failed
\* or not) and remove_job calls, the ids of self.jobs are the ids of the jobs the
\* scheduler holds, and get_scheduler_status reports total_jobs = active_jobs.
\* (Violated: add_custom_job adds the job and then fails on func.__name__, leaving
\* a job without a metadata entry.)
C28_RegistryMatchesScheduler ==
    /\ MetaIds = LibJobIds
    /\ Cardinality(MetaIds) = SumLen(pending, JobIds)

\* A step of one of the registration calls
RegistrationCall ==
    \/ \E t \in DailyTimes, c \in CompanyLists, id \in DailyIds :
          AddDailyExtractionJob(t, c, id)
    \/ \E d \in DayInputs, id \in WeeklyIds : AddWeeklyFullSyncJob(d, id)
    \/ \E t \in BackupTimes, id \in BackupIds : AddBackupJob(t, id)
    \/ \E h \in IntervalInputs, id \in HealthIds : AddHealthCheckJob(h, id)
    \/ \E f \in CustomFuncs, tt \in TriggerTypes, id \in CustomIds :
          AddCustomJob(f, tt, id)

\* C29: a registration call that returns None has raised nothing, has neither
\* added a job to the scheduler nor replaced one, and has left the job registered
\* under that id and its metadata entry as they were.
\* (Violated: add_custom_job returns None after add_job has added the job, when
\* reading func.__name__ fails.)
C29_FailedRegistrationChangesNothing ==
    [][(last'.ret = "None" /\ RegistrationCall) =>
          UNCHANGED <<pending, store, jobs>>]_vars

-----------------------------------------------------------------------------
(* Properties of the RAG system *)

\* C9: every item search_documents returns (and so every source of a query) has a
\* similarity score, 1 - distance, of at least SIMILARITY_THRESHOLD, also when this
\* leaves fewer items than were retrieved, or none.
C9_ResultsMeetThreshold ==
    response.op \in {"search_documents", "query"} =>
        /\ \A i \in 1 .. Len(response.sources) :
              response.sources[i].score >= SIMILARITY_THRESHOLD
        /\ Len(response.sources) <= response.retrieved

C9_Witness ==
    /\ response.op = "search_documents"
    /\ response.sources # <<>>
    /\ Len(response.sources) < response.retrieved

\* C10: the confidence query returns is min(mean(score) * 1.2, 1.0) of its sources,
\* 0 for no sources, and lies in [0, 1].
C10_ConfidenceIsClampedBoostedMean ==
    response.op = "query" =>
        LET c == response.confidence
            n == Len(response.sources)
            boosted == 12 * SumScores(response.sources)
        IN  /\ c.den > 0
            /\ 0 <= c.num /\ c.num <= c.den
            /\ n = 0 => c.num = 0
            /\ n > 0 => c.num * (1000 * n) =
                           c.den * (IF boosted < 1000 * n THEN boosted ELSE 1000 * n)

C10_Witness ==
    /\ response.op = "query"
    /\ response.sources # <<>>
    /\ 12 * SumScores(response.sources) > 1000 * Len(response.sources)
    /\ response.confidence.num = response.confidence.den

\* C11: when the search of a query yields nothing, query returns the fixed
\* no-information answer with confidence 0 and no sources, and makes no call of the
\* generation backend.
C11_EmptySearchGivesFixedAnswer ==
    (response.op = "query" /\ response.sources = <<>>) =>
        /\ response.answer = "no_information"
        /\ response.confidence.num = 0
        /\ response.generate_calls = 0

C11_Witness ==
    /\ response.op = "query"
    /\ response.sources = <<>>
    /\ response.answer = "no_information"
    /\ response.retrieved > 0
    /\ ollama_client

\* C12: an Answer of query whose text reports a failure of the generation backend
\* (not available, or its call raised) has confidence 0.
\* (Violated: the confidence is computed from the sources whatever generate_answer
\* returned.)
C12_FailureAnswerHasZeroConfidence ==
    (response.op = "query" /\
     response.answer \in {"ollama_unavailable", "generation_error"}) =>
        response.confidence.num = 0

\* The chunks a search has to choose from: those that agree with every entry of
\* filters whose value is neither empty nor 'All'.
MatchesAppliedFilters(chunk, filters) ==
    /\ filters.company \in {"", "All"} \/ chunk.company = filters.company
    /\ filters.quarter \in {"", "All"} \/ chunk.quarter = filters.quarter

\* The results the filters, the top-k cut and the threshold, in this order, leave.
FilteredThenCut(q, n_results, filters) ==
    LET qe == GenerateEmbedding(q, FALSE)
        near == Nearest(qe, {i \in 1 .. Len(collection) :
                                MatchesAppliedFilters(collection[i], filters)},
                        n_results)
    IN  SelectSeq([i \in 1 .. Len(near) |->
                     [company |-> collection[near[i]].company,
                      quarter |-> collection[near[i]].quarter,
                      chunk_index |-> collection[near[i]].chunk_index,
                      score |-> 100 - Distance(collection[near[i]].emb, qe)]],
                  LAMBDA r : r.score >= SIMILARITY_THRESHOLD)

\* C18: search_documents applies exactly the filter entries that are present and
\* not 'All', before the top-k cut: it returns the results of similarity at least
\* the threshold among the k nearest of the chunks that match every applied
\* filter.
\* (Violated: for two applied entries collection.query is handed a where clause of
\* two keys, which it refuses, and the search returns nothing.)
C18_FiltersAppliedBeforeTopK ==
    [][\A q \in QueryTopics, n \in NResults, f \in FilterInputs :
         SearchDocuments(q, n, f) =>
            response'.sources = FilteredThenCut(q, n, f)]_vars

\* C19: get_collection_stats on an empty collection returns the summary with
\* total count 0, distinct company count 0, latest period 'N/A' and
\* days-since-update 0.
C19_EmptyIndexStatsAreZero ==
    (response.op = "get_collection_stats" /\ collection = <<>>) =>
        /\ response.stats.total_documents = 0
        /\ response.stats.unique_companies = 0
        /\ response.stats.latest_quarter = "N/A"
        /\ response.stats.days_since_update = 0

C19_Witness ==
    /\ response.op = "get_collection_stats"
    /\ collection = <<>>
    /\ response.stats = EmptyStats

\* The step can be an add_document of document d: what it appended, if anything,
\* is of d.
CanBeAddOf(d) ==
    /\ response'.op = "add_document"
    /\ Len(collection') > Len(collection) =>
          /\ collection'[Len(collection')].company = d.company
          /\ collection'[Len(collection')].quarter = d.quarter
          /\ collection'[Len(collection')].total_chunks = ChunkCount(d.words)

\* The sets of chunk indices of document d for which encode can raise
FailedOf(d) == SUBSET (0 .. ChunkCount(d.words) - 1)

\* The chunk indices of document d before which the clock can advance
LateOf(d) == 1 .. NoTick(d.words)

\* Every chunk of the collection stands among all the chunks of its batch.
BatchesComplete ==
    \A p \in 1 .. Len(collection) :
       LET c == collection[p]
           start == p - c.chunk_index
       IN  /\ start >= 1
           /\ start + c.total_chunks - 1 <= Len(collection)
           /\ \A j \in 0 .. c.total_chunks - 1 :
                 /\ collection[start + j].chunk_index = j
                 /\ collection[start + j].total_chunks = c.total_chunks
                 /\ collection[start + j].company = c.company
                 /\ collection[start + j].quarter = c.quarter

\* C20: add_document writes the chunks of a document as one batch: when it returns
\* True the collection has grown by one record per chunk of the document, when it
\* returns False the collection is as it was, and the collection never holds some
\* but not all chunks of one call.
C20_AddDocumentIsAtomic ==
    /\ []BatchesComplete
    /\ [][\A d \in Documents :
          CanBeAddOf(d) =>
          \A failed \in FailedOf(d), late \in LateOf(d) :
            AddDocument(d.words, d.topic, d.company, d.quarter, failed, late) =>
               /\ response'.ret \in {"True", "False"}
               /\ response'.ret = "True" =>
                     /\ Len(collection') = Len(collection) +
                           Len(ChunkText(d.words, CHUNK_SIZE, CHUNK_OVERLAP))
                     /\ SubSeq(collection', 1, Len(collection)) = collection
                     /\ \A p \in Len(collection) + 1 .. Len(collection') :
                           /\ collection'[p].chunk_index = p - Len(collection) - 1
                           /\ collection'[p].company = d.company
               /\ response'.ret = "False" => collection' = collection]_vars

C20_Witness ==
    /\ response.op = "add_document"
    /\ response.ret = "True"
    /\ collection # <<>>
    /\ collection[Len(collection)].total_chunks >= 2

\* C21: where the embedding model is missing or encode raises for some of a
\* document's chunks, _generate_embedding returns the zero vector of the fixed
\* dimension, and add_document still stores every chunk of the document, those
\* chunks with the zero vector: every stored embedding has the one dimension.
C21_EmbeddingFailureStoresZeroVectors ==
    /\ [](\A p \in 1 .. Len(collection) : collection[p].dim = MiniLMDim)
    /\ [][\A d \in Documents :
          (CanBeAddOf(d) /\ ChunkCount(d.words) > 0) =>
          \A failed \in FailedOf(d), late \in LateOf(d) :
            AddDocument(d.words, d.topic, d.company, d.quarter, failed, late) =>
               /\ response'.ret = "True"
               /\ Len(collection') = Len(collection) + ChunkCount(d.words)
               /\ \A i \in 0 .. ChunkCount(d.words) - 1 :
                     LET c == collection'[Len(collection) + 1 + i]
                     IN  /\ c.chunk_index = i
                         /\ (i \in failed \/ ~embedding_model) =>
                               (c.emb = 0 /\ c.dim = ZeroEmbeddingDim)
                         /\ (i \notin failed /\ embedding_model) =>
                               c.emb = d.topic]_vars

C21_Witness ==
    /\ response.op = "add_document"
    /\ response.ret = "True"
    /\ embedding_model
    /\ Len(collection) >= 2
    /\ collection[Len(collection)].chunk_index >= 1
    /\ collection[Len(collection)].emb = 0
    /\ collection[Len(collection) - 1].emb # 0

\* C26: all chunks stored by one add_document call carry the same added_date, the
\* time of the batch, however much time passes while the chunks are prepared.
\* (Violated: added_date is datetime.now() read anew for every chunk.)
C26_BatchHasOneTimestamp ==
    \A p \in 1 .. Len(collection), q \in 1 .. Len(collection) :
       (p - collection[p].chunk_index = q - collection[q].chunk_index) =>
          collection[p].added_date = collection[q].added_date

\* C27: whatever add_document, delete_documents and reset_collection calls were
\* made, every stored chunk has 0 <= chunk_index < total_chunks, and the chunks one
\* add_document call writes carry the indices 0 .. total_chunks - 1 once each, with
\* the same total_chunks.
C27_ChunkIndexWithinTotal ==
    /\ [](\A p \in 1 .. Len(collection) :
            /\ 0 <= collection[p].chunk_index
            /\ collection[p].chunk_index < collection[p].total_chunks)
    /\ [][response'.op = "add_document" =>
            LET written == Len(collection') - Len(collection)
            IN  /\ written >= 0
                /\ \A i \in 1 .. written :
                      /\ collection'[Len(collection) + i].chunk_index = i - 1
                      /\ collection'[Len(collection) + i].total_chunks = written]_vars

C27_Witness ==
    /\ response.op = "delete_documents"
    /\ response.ret = "True"
    /\ \E p \in 1 .. Len(collection) : collection[p].chunk_index >= 1

\* The chunks of the collection col that belong to a document of this company and
\* quarter.
ChunksOf(col, company, quarter) ==
    Len(SelectSeq(col, LAMBDA c : c.company = company /\ c.quarter = quarter))

\* C30: add_document leaves every chunk that was in the collection before the call
\* in it, unchanged: a second ingestion of a document adds a second full set of
\* its chunks and does not replace the first.
C30_AddDocumentKeepsExistingChunks ==
    [][\A d \in Documents :
       CanBeAddOf(d) =>
       \A failed \in FailedOf(d), late \in LateOf(d) :
         AddDocument(d.words, d.topic, d.company, d.quarter, failed, late) =>
            /\ Len(collection') >= Len(collection)
            /\ \A p \in 1 .. Len(collection) : collection'[p] = collection[p]
            /\ response'.ret = "True" =>
                  ChunksOf(collection', d.company, d.quarter) =
                     ChunksOf(collection, d.company, d.quarter) + ChunkCount(d.words)]_vars

C30_Witness ==
    /\ response.op = "add_document"
    /\ response.ret = "True"
    /\ \E p \in 1 .. Len(collection) - 1 :
          /\ collection[p].chunk_index = 0
          /\ collection[Len(collection)].chunk_index = 0
          /\ collection[p].company = collection[Len(collection)].company
          /\ collection[p].quarter = collection[Len(collection)].quarter
          /\ collection[p].emb = collection[Len(collection)].emb

-----------------------------------------------------------------------------
(* Properties of _chunk_text *)

\* ceil(a / b) for b > 0
CeilDiv(a, b) == -((-a) \div b)

\* C13: for overlap < chunk_size the chunks are the word windows starting at 0,
\* stride, 2 * stride, ... with stride = chunk_size - overlap; every word of the
\* text is in one of them and consecutive windows leave no gap.
C13_WindowsCoverEveryWord ==
    chunk_output.done =>
        LET c == chunk_output.chunks
            stride == chunk_input.chunk_size - chunk_input.overlap
        IN  /\ \A k \in 1 .. Len(c) : c[k].first = (k - 1) * stride
            /\ \A w \in 0 .. chunk_input.words - 1 :
                  \E k \in 1 .. Len(c) :
                     c[k].first <= w /\ w < c[k].first + c[k].words
            /\ \A k \in 1 .. Len(c) - 1 : c[k + 1].first <= c[k].first + c[k].words

C13_Witness ==
    /\ chunk_output.done
    /\ Len(chunk_output.chunks) >= 3
    /\ chunk_input.overlap > 0

C16_Scenario2400 ==
    (chunk_output.done /\
     chunk_input = [words |-> 2400, chunk_size |-> 1000, overlap |-> 200]) =>
        [k \in 1 .. Len(chunk_output.chunks) |-> chunk_output.chunks[k].words] =
            <<1000, 1000, 400>>

\* C16 amended: 2400 words with chunk_size 1000 and overlap 200 give 3 chunks of
\* 1000, 1000 and 800 words.
C16_Scenario2400LastChunk800 ==
    (chunk_output.done /\
     chunk_input = [words |-> 2400, chunk_size |-> 1000, overlap |-> 200]) =>
        [k \in 1 .. Len(chunk_output.chunks) |-> chunk_output.chunks[k].words] =
            <<1000, 1000, 800>>

C16_Witness ==
    /\ chunk_output.done
    /\ chunk_input = [words |-> 2400, chunk_size |-> 1000, overlap |-> 200]
    /\ Len(chunk_output.chunks) = 3

\* C17: every chunk holds at most chunk_size words, every chunk but the last
\* exactly chunk_size, and each chunk after the first starts with the last
\* overlap words of the chunk before it.
C17_ChunkSizesAndOverlap ==
    chunk_output.done =>
        LET c == chunk_output.chunks
        IN  /\ \A k \in 1 .. Len(c) : c[k].words <= chunk_input.chunk_size
            /\ \A k \in 1 .. Len(c) - 1 : c[k].words = chunk_input.chunk_size
            /\ \A k \in 2 .. Len(c) :
                  /\ c[k].words >= chunk_input.overlap
                  /\ c[k - 1].first + c[k - 1].words - c[k].first =
                        chunk_input.overlap

C17_Witness ==
    /\ chunk_output.done
    /\ chunk_input.chunk_size = CHUNK_SIZE
    /\ chunk_input.overlap = CHUNK_OVERLAP
    /\ Len(chunk_output.chunks) >= 2
    /\ chunk_output.chunks[Len(chunk_output.chunks)].words < CHUNK_SIZE
\* C22: a configuration with overlap >= chunk size is rejected when the
\* configuration is validated, before any ingestion: under it no chunking step is
\* ever executed, and so none fails inside the chunking loop.
\* (Violated: nothing validates the configuration; _chunk_text runs under it and
\* raises from range() for a step of zero, or returns no chunk for a negative one.)
C22_DegenerateConfigIsNeverChunked ==
    chunk_input.overlap >= chunk_input.chunk_size => ~chunk_output.done

-----------------------------------------------------------------------------
(* Properties of the extraction tasks *)

\* C23: a run of a scheduled extraction job calls the extractor and then hands
\* every successfully extracted document to add_document: after a run in which an
\* extraction succeeded the collection holds chunks of that document.
\* (Violated: neither task calls add_document.)
C23_ExtractedDocumentsAreIndexed ==
    \A r \in task_run.successful :
       \E p \in 1 .. Len(collection) : collection[p].company = r[1]

\* The period before <<year, quarter>>
PrecedingPeriod(period) ==
    IF period[2] > 1 THEN <<period[1], period[2] - 1>>
    ELSE <<period[1] - 1, 4>>

\* The period of a date
PeriodOf(now) == <<now.year, (now.month + 2) \div 3>>

C25_WeeklySyncRequestsNoOtherPeriod ==
    task_run.task = "weekly" =>
        {<<r[2], r[3]>> : r \in task_run.requests} =
           {PeriodOf(today), PrecedingPeriod(PeriodOf(today))}

====
